---- MODULE Spec2Model ----
(***************************************************************************)
(* A model of the lime-web-admin service layer: the ApiService HTTP client *)
(* (URL and header building, abort timer, retry with linear backoff, error *)
(* classification) and the AuthService facade that pushes tokens into the  *)
(* clients and mirrors them into local storage.                            *)
(*                                                                         *)
(* JavaScript values are encoded as follows.  An optional number is a      *)
(* sequence: << >> for undefined, <<n>> for n.  A string that the code     *)
(* only tests for truthiness uses "" for both undefined and the empty      *)
(* string.  A string that the code slices is a sequence of characters.     *)
(***************************************************************************)
EXTENDS Integers, Sequences, FiniteSets, TLC

VARIABLES
    config,      \* the ApiServiceConfig handed to the constructor
    inst,        \* the instance fields the constructor computed from config
    authTokens,  \* ApiService.authTokens of each exported instance
    storage,     \* window.localStorage: authTokens and loginResponse entries
    calls,       \* the logical calls (makeRequest chains) in flight or settled
    session,     \* history: the last AuthService operation that completed
    base,        \* buildURL: this.baseURL
    endpoint,    \* buildURL: the endpoint argument
    url,         \* buildURL: the value returned, << >> before the call
    urlBuilt,    \* buildURL: whether the call has been made
    provider,    \* AuthProvider: user, loading and the last operation it ran
    query,       \* a query-string function: its argument and what it built
    hook,        \* a mounted hook: its React state, its pending executes, its interval
    userMessage, \* handleApiError: its argument and the message it returned
    cache,       \* ApiCache.cache: the entry stored under each key
    clock,       \* Date.now()
    cacheLog,    \* history: the last set of each key, the last get
    interceptors \* ApiService.requestInterceptor / responseInterceptor

vars == <<config, inst, authTokens, storage, calls, session,
          base, endpoint, url, urlBuilt, provider, query,
          hook, userMessage, cache, clock, cacheLog, interceptors>>

-----------------------------------------------------------------------------
(* Bounds of the model *)

\* largest retry count handed to the constructor or given as an override
MaxRetries == 2

\* longest base URL / endpoint string given to buildURL
MaxLen == 3

\* params objects have up to MaxFields entries
MaxFields == 3

\* executes one hook begins in a behaviour
MaxCalls == 3
MaxClock == 4

-----------------------------------------------------------------------------
(* Program constants *)

DefaultTimeout == 10000
DefaultRetries == 3
DefaultRetryDelay == 1000
TimeoutStatus == 408
FallbackStatus == 500
LogoutStatus == 200
UnauthorizedStatus == 401

-----------------------------------------------------------------------------
(* JavaScript helpers *)

Undefined == << >>

\* a || d for an optional number a: undefined and 0 are falsy
OrDefault(a, d) == IF a = Undefined \/ a[1] = 0 THEN d ELSE a[1]

\* a || d for a string a: undefined and "" are falsy
StrOrDefault(a, d) == IF a = "" THEN d ELSE a

-----------------------------------------------------------------------------
(* ApiService: construction, URL and headers *)

Constructor(cfg) ==
    [ timeout    |-> OrDefault(cfg.timeout, DefaultTimeout),
      retries    |-> OrDefault(cfg.retries, DefaultRetries),
      retryDelay |-> OrDefault(cfg.retryDelay, DefaultRetryDelay) ]

startsWithSlash(s) == Len(s) > 0 /\ s[1] = "/"
endsWithSlash(s) == Len(s) > 0 /\ s[Len(s)] = "/"

buildURLNoClean(b, e) == b \o <<"/">> \o e

buildURL(b, e) ==
    LET cleanEndpoint == IF startsWithSlash(e) THEN SubSeq(e, 2, Len(e)) ELSE e
        cleanBaseURL  == IF endsWithSlash(b) THEN SubSeq(b, 1, Len(b) - 1) ELSE b
    IN  cleanBaseURL \o <<"/">> \o cleanEndpoint

\* the tokens held by a client: isNull is this.authTokens === null
NoTokens == [isNull |-> TRUE, accessToken |-> "", tokenType |-> ""]

\* the Authorization header: << >> when absent, else <<tokenType, accessToken>>
\* standing for `${tokenType} ${accessToken}`
buildHeaders(tokens) ==
    IF ~tokens.isNull /\ tokens.accessToken # ""
    THEN <<StrOrDefault(tokens.tokenType, "Bearer"), tokens.accessToken>>
    ELSE << >>

-----------------------------------------------------------------------------
(* ApiService: responses, errors and the retry decision *)

\* a decoded response body: "" (empty text) or an object with optional fields
EmptyText == [kind |-> "emptyText", message |-> "", code |-> "",
              token |-> "", tokenType |-> ""]
PlainObject == [kind |-> "object", message |-> "", code |-> "",
                token |-> "", tokenType |-> ""]
ErrorObject == [kind |-> "object", message |-> "server message",
                code |-> "SERVER_CODE", token |-> "", tokenType |-> ""]

\* new Error(`HTTP ${status}`) carrying response = {status, data}
HttpError(status, data) ==
    [name |-> "Error", message |-> "HTTP " \o ToString(status),
     hasResponse |-> TRUE, status |-> status, data |-> data]

\* the rejection of fetch after controller.abort()
AbortError == [name |-> "AbortError", message |-> "The operation was aborted.",
               hasResponse |-> FALSE, status |-> 0, data |-> EmptyText]

\* the rejection of fetch when no response arrives at all
NetworkFailure == [name |-> "TypeError", message |-> "Failed to fetch",
                   hasResponse |-> FALSE, status |-> 0, data |-> EmptyText]

\* the rejection of response.json() / response.text()
DecodeFailure == [name |-> "SyntaxError", message |-> "Unexpected end of JSON input",
                  hasResponse |-> FALSE, status |-> 0, data |-> EmptyText]

NoResult == [kind |-> "none", success |-> FALSE, status |-> 0, code |-> "",
             message |-> "", data |-> EmptyText]

\* response.ok
responseOkBelow400(status) == status >= 200 /\ status <= 399

responseOk(status) == status >= 200 /\ status <= 299

\* the object makeRequest returns
Envelope(status, data) ==
    [kind |-> "envelope", success |-> TRUE, status |-> status, code |-> "",
     message |-> data.message, data |-> data]

handleErrorAbortAsNetwork(error) ==
    IF ~error.hasResponse
    THEN [kind |-> "error", success |-> FALSE, status |-> 0,
          code |-> "NETWORK_ERROR",
          message |-> StrOrDefault(error.message, "Network error"),
          data |-> EmptyText]
    ELSE [kind |-> "error", success |-> FALSE,
          status |-> IF error.status = 0 THEN FallbackStatus ELSE error.status,
          code |-> StrOrDefault(error.data.code, "API_ERROR"),
          message |-> StrOrDefault(error.data.message,
                                   StrOrDefault(error.message, "API Error")),
          data |-> error.data]

handleError(error) ==
    IF error.name = "AbortError"
    THEN [kind |-> "error", success |-> FALSE, status |-> TimeoutStatus,
          code |-> "TIMEOUT", message |-> "Request timeout", data |-> EmptyText]
    ELSE IF ~error.hasResponse
    THEN [kind |-> "error", success |-> FALSE, status |-> 0,
          code |-> "NETWORK_ERROR",
          message |-> StrOrDefault(error.message, "Network error"),
          data |-> EmptyText]
    ELSE [kind |-> "error", success |-> FALSE,
          status |-> IF error.status = 0 THEN FallbackStatus ELSE error.status,
          code |-> StrOrDefault(error.data.code, "API_ERROR"),
          message |-> StrOrDefault(error.data.message,
                                   StrOrDefault(error.message, "API Error")),
          data |-> error.data]

\* config?.retries || this.retries
effectiveRetries(retriesOpt, instance) == OrDefault(retriesOpt, instance.retries)

\* config?.timeout || this.timeout
effectiveTimeout(timeoutOpt, instance) == OrDefault(timeoutOpt, instance.timeout)

shouldRetryAnyFailure(attempt, retriesOpt, instance, error) ==
    attempt < effectiveRetries(retriesOpt, instance)

shouldRetryFrom400(attempt, retriesOpt, instance, error) ==
    /\ attempt < effectiveRetries(retriesOpt, instance)
    /\ \/ error.name = "AbortError"
       \/ error.hasResponse /\ error.status # 0 /\ error.status >= 400

shouldRetry(attempt, retriesOpt, instance, error) ==
    /\ attempt < effectiveRetries(retriesOpt, instance)
    /\ \/ error.name = "AbortError"
       \/ error.hasResponse /\ error.status # 0 /\ error.status >= 500

\* this.retryDelay * attempt
backoffDelay(instance, attempt) == instance.retryDelay * attempt

-----------------------------------------------------------------------------
(* The exported instances and the logical calls *)

\* apiService, authService and orchestratorService of services/api/index.ts
Clients == {"main", "auth", "orchestrator"}

\* the slots that hold a logical call each
Calls == {"c1", "c2"}

Methods == {"GET", "POST", "PUT", "PATCH", "DELETE"}

\* what one attempt ended with, as kept in the history of a call
Outcome(kind, status) == [kind |-> kind, status |-> status]

\* the last AuthService operation that completed: for a login the token and
\* tokenType the server sent, for a logout how its server-side call went and
\* whether the main client held tokens before; reply is what it resolved with
NoSession == [op |-> "none", token |-> "", tokenType |-> "",
              serverCall |-> "none", hadTokens |-> FALSE,
              reply |-> [success |-> FALSE, status |-> 0, message |-> ""]]

\* of a session, what a request built under it must carry
Credentials(s) == [op |-> s.op, token |-> s.token, tokenType |-> s.tokenType]

NoLogin == Credentials(NoSession)

IdleCall ==
    [ pc         |-> "idle",      \* idle, fetching, decoding, sleeping, returned, raised
      owner      |-> "request",   \* who awaits the call
      client     |-> "main",
      method     |-> "GET",
      retriesOpt |-> Undefined,   \* config?.retries
      timeoutOpt |-> Undefined,   \* config?.timeout
      attempt    |-> 0,
      auth       |-> << >>,       \* the Authorization header of the attempt
      timer      |-> << >>,       \* the armed abort timer: << >> or <<ms>>
      status     |-> 0,           \* response.status while the body is decoded
      sleepMs    |-> 0,           \* the backoff sleep in progress
      result     |-> NoResult,    \* the envelope returned or the error raised
      decodedBody |-> EmptyText,  \* history: the body decoded last
      outcomes   |-> << >>,       \* history: the outcome of each attempt
      sleeps     |-> << >>,       \* history: the duration of each backoff sleep
      headers    |-> << >>,       \* history: the Authorization header of each attempt
      seen       |-> NoLogin ]    \* history: the session when the headers were built

dispatchKeepingHeaders(call, attempt) ==
    [call EXCEPT !.pc = "fetching",
                 !.attempt = attempt,
                 !.auth = IF attempt = 1
                          THEN buildHeaders(authTokens[call.client])
                          ELSE call.auth,
                 !.timer = <<effectiveTimeout(call.timeoutOpt, inst)>>,
                 !.status = 0,
                 !.sleepMs = 0,
                 !.headers = Append(call.headers,
                                    IF attempt = 1
                                    THEN buildHeaders(authTokens[call.client])
                                    ELSE call.auth),
                 !.seen = Credentials(session)]

\* makeRequest up to the await of fetch: headers built from the tokens the
\* client holds now, abort timer armed with the effective timeout
dispatch(call, attempt) ==
    [call EXCEPT !.pc = "fetching",
                 !.attempt = attempt,
                 !.auth = buildHeaders(authTokens[call.client]),
                 !.timer = <<effectiveTimeout(call.timeoutOpt, inst)>>,
                 !.status = 0,
                 !.sleepMs = 0,
                 !.headers = Append(call.headers,
                                    buildHeaders(authTokens[call.client])),
                 !.seen = Credentials(session)]

\* the catch block of makeRequest: clearTimeout, then retry or raise
catch(call, error, outcome) ==
    LET seenOutcomes == Append(call.outcomes, outcome)
    IN  IF shouldRetry(call.attempt, call.retriesOpt, inst, error)
        THEN [call EXCEPT !.pc = "sleeping",
                          !.timer = << >>,
                          !.status = 0,
                          !.sleepMs = backoffDelay(inst, call.attempt),
                          !.outcomes = seenOutcomes,
                          !.sleeps = Append(call.sleeps,
                                            backoffDelay(inst, call.attempt))]
        ELSE [call EXCEPT !.pc = "raised",
                          !.timer = << >>,
                          !.status = 0,
                          !.result = handleError(error),
                          !.outcomes = seenOutcomes]

\* the body decoded: throw the HTTP error unless response.ok, else return
decoded(call, data) ==
    IF ~responseOk(call.status)
    THEN catch([call EXCEPT !.decodedBody = data],
               HttpError(call.status, data), Outcome("http", call.status))
    ELSE [call EXCEPT !.pc = "returned",
                      !.result = Envelope(call.status, data),
                      !.decodedBody = data,
                      !.status = 0,
                      !.outcomes = Append(call.outcomes,
                                          Outcome("http", call.status))]

-----------------------------------------------------------------------------
(* AuthService: tokens pushed into the clients and mirrored into storage *)

setAuthTokens(tokens, client, t) == [tokens EXCEPT ![client] = t]

clearAuthTokens(tokens, client) == [tokens EXCEPT ![client] = NoTokens]

\* a localStorage entry: absent, or the JSON text of an object
Absent == [state |-> "absent", token |-> "", tokenType |-> ""]

EmptyStorage == [authTokens |-> Absent, loginResponse |-> Absent]

\* JSON.stringify of an AuthTokens object / of a LoginResponse
stringifyTokens(t) ==
    [state |-> "json", token |-> t.accessToken, tokenType |-> t.tokenType]

stringifyLogin(data) ==
    [state |-> "json", token |-> data.token, tokenType |-> data.tokenType]

loginSettledAuthOnly(now, op, response) ==
    IF response.kind = "envelope" /\ response.success
       /\ response.data.kind # "emptyText"
    THEN LET t == [isNull |-> FALSE,
                   accessToken |-> response.data.token,
                   tokenType |-> StrOrDefault(response.data.tokenType, "Bearer")]
         IN  [tokens  |-> setAuthTokens(now.tokens, "auth", t),
              storage |-> [authTokens |-> stringifyTokens(t),
                           loginResponse |-> stringifyLogin(response.data)],
              session |-> [op |-> op, token |-> response.data.token,
                           tokenType |-> response.data.tokenType,
                           serverCall |-> "ok",
                           hadTokens |-> ~now.tokens["main"].isNull,
                           reply |-> [success |-> response.success,
                                      status |-> response.status,
                                      message |-> response.message]]]
    ELSE now

\* AuthService.login / quickLogin after the await of authService.post
loginSettled(now, op, response) ==
    IF response.kind = "envelope" /\ response.success
       /\ response.data.kind # "emptyText"
    THEN LET t == [isNull |-> FALSE,
                   accessToken |-> response.data.token,
                   tokenType |-> StrOrDefault(response.data.tokenType, "Bearer")]
         IN  [tokens  |-> setAuthTokens(setAuthTokens(now.tokens, "main", t),
                                        "auth", t),
              storage |-> [authTokens |-> stringifyTokens(t),
                           loginResponse |-> stringifyLogin(response.data)],
              session |-> [op |-> op, token |-> response.data.token,
                           tokenType |-> response.data.tokenType,
                           serverCall |-> "ok",
                           hadTokens |-> ~now.tokens["main"].isNull,
                           reply |-> [success |-> response.success,
                                      status |-> response.status,
                                      message |-> response.message]]]
    ELSE now

LogoutReply == [success |-> TRUE, status |-> LogoutStatus,
                message |-> "Logged out successfully"]

\* AuthService.logout, the version without a server call
logoutLocal(now) ==
    [tokens  |-> clearAuthTokens(clearAuthTokens(now.tokens, "main"), "auth"),
     storage |-> [authTokens |-> Absent, loginResponse |-> Absent],
     session |-> [op |-> "logout", token |-> "", tokenType |-> "",
                  serverCall |-> "none",
                  hadTokens |-> ~now.tokens["main"].isNull,
                  reply |-> LogoutReply]]

logoutSettledNoFinally(now, response) ==
    [tokens  |-> IF response.kind = "envelope"
                 THEN clearAuthTokens(clearAuthTokens(now.tokens, "main"), "auth")
                 ELSE now.tokens,
     storage |-> IF response.kind = "envelope"
                 THEN [now.storage EXCEPT !.authTokens = Absent]
                 ELSE now.storage,
     session |-> [op |-> "logout", token |-> "", tokenType |-> "",
                  serverCall |-> IF response.kind = "envelope" THEN "ok"
                                 ELSE "failed",
                  hadTokens |-> ~now.tokens["main"].isNull,
                  reply |-> LogoutReply]]

\* AuthService.logout, the version that posts to /logout first: the catch
\* swallows a failure and the finally block cleans up either way
logoutSettled(now, response) ==
    [tokens  |-> clearAuthTokens(clearAuthTokens(now.tokens, "main"), "auth"),
     storage |-> [now.storage EXCEPT !.authTokens = Absent],
     session |-> [op |-> "logout", token |-> "", tokenType |-> "",
                  serverCall |-> IF response.kind = "envelope" THEN "ok"
                                 ELSE "failed",
                  hadTokens |-> ~now.tokens["main"].isNull,
                  reply |-> LogoutReply]]

\* AuthService.isAuthenticated: !!apiService.getAuthTokens()?.accessToken
isAuthenticated(tokens) ==
    ~tokens["main"].isNull /\ tokens["main"].accessToken # ""

\* JSON.parse of a stored authTokens entry that holds JSON text
parseTokens(entry) ==
    [isNull |-> FALSE, accessToken |-> entry.token, tokenType |-> entry.tokenType]

initializeAuthMainOnly(now) ==
    IF now.storage.authTokens.state = "absent" THEN now
    ELSE IF now.storage.authTokens.state = "json"
    THEN [now EXCEPT !.tokens = setAuthTokens(now.tokens, "main",
                                              parseTokens(now.storage.authTokens))]
    ELSE [now EXCEPT !.storage = [authTokens |-> Absent,
                                  loginResponse |-> Absent]]

\* AuthService.initializeAuth: tokens read from storage into the main and the
\* auth client; both keys removed when the stored text does not parse
initializeAuth(now) ==
    IF now.storage.authTokens.state = "absent" THEN now
    ELSE IF now.storage.authTokens.state = "json"
    THEN LET t == parseTokens(now.storage.authTokens)
         IN  [now EXCEPT !.tokens = setAuthTokens(setAuthTokens(now.tokens,
                                                                "main", t),
                                                  "auth", t)]
    ELSE [now EXCEPT !.storage = [authTokens |-> Absent,
                                  loginResponse |-> Absent]]

\* AuthService.getStoredLoginResponse: the parsed entry, or null (Absent) when
\* there is none or it does not parse; storage is only read
getStoredLoginResponse(now) ==
    [storage |-> now.storage,
     value   |-> IF now.storage.loginResponse.state = "json"
                 THEN now.storage.loginResponse
                 ELSE Absent]

\* the envelope AuthService.validateToken returns for an error of status 401
InvalidTokenReply ==
    [kind |-> "envelope", success |-> FALSE, status |-> UnauthorizedStatus,
     code |-> "", message |-> "Token is invalid or expired", data |-> EmptyText]

validateTokenSwallowingAll(result) ==
    IF result.kind = "envelope" THEN [raised |-> FALSE, response |-> result]
    ELSE [raised |-> FALSE, response |-> InvalidTokenReply]

\* AuthService.validateToken after the await of authService.get: what it
\* returns, or the error it raises again
validateToken(result) ==
    IF result.kind = "envelope" THEN [raised |-> FALSE, response |-> result]
    ELSE IF result.status = UnauthorizedStatus
    THEN [raised |-> FALSE, response |-> InvalidTokenReply]
    ELSE [raised |-> TRUE, response |-> result]

\* the AuthProvider before its mount effect has run; last is history: the
\* operation run last, the outcome of the attempt that ended its call, what
\* AuthService.validateToken returned or raised, whether the provider let an
\* error escape, and whether a stored value failed to parse
NoOperation ==
    [op |-> "none", outcome |-> Outcome("none", 0), raised |-> FALSE,
     response |-> NoResult, propagated |-> FALSE, failed |-> FALSE]

ProviderIdle ==
    [mounted |-> FALSE, user |-> "null", loading |-> TRUE, last |-> NoOperation]

\* AuthProvider.validateToken after the await of AuthService.validateToken:
\* setUser for a successful response with data, a local logout and
\* setUser(null) for any other response, setUser(null) for an error, and
\* setLoading(false) in the finally block
validateTokenSettled(now, prov, call) ==
    LET reply == validateToken(call.result)
        valid == /\ ~reply.raised
                 /\ reply.response.success
                 /\ reply.response.data.kind # "emptyText"
    IN  [world    |-> IF ~reply.raised /\ ~valid THEN logoutLocal(now) ELSE now,
         provider |-> [prov EXCEPT
                          !.user = IF valid THEN "user" ELSE "null",
                          !.loading = FALSE,
                          !.last = [op |-> "validateToken",
                                    outcome |-> call.outcomes[Len(call.outcomes)],
                                    raised |-> reply.raised,
                                    response |-> reply.response,
                                    propagated |-> FALSE,
                                    failed |-> FALSE]]]

\* the code that awaits a call, run when the call has settled
continuation(call) ==
    LET now == [tokens |-> authTokens, storage |-> storage, session |-> session]
    IN  IF call.pc \notin {"returned", "raised"} THEN now
        ELSE IF call.owner \in {"login", "quickLogin"}
             THEN loginSettled(now, call.owner, call.result)
        ELSE IF call.owner = "logout" THEN logoutSettled(now, call.result)
        ELSE IF call.owner = "validate"
             THEN validateTokenSettled(now, provider, call).world
        ELSE now

\* what the settled call leaves of the AuthProvider's state
providerContinuation(call) ==
    LET now == [tokens |-> authTokens, storage |-> storage, session |-> session]
    IN  IF call.pc \in {"returned", "raised"} /\ call.owner = "validate"
        THEN validateTokenSettled(now, provider, call).provider
        ELSE provider

-----------------------------------------------------------------------------
(* Query strings: buildQueryString and the list operations of the facades *)

\* a value of a params object: undefined, null, a string, a number or an
\* array of strings
UndefinedValue == [kind |-> "undefined", str |-> "", num |-> 0, items |-> << >>]
NullValue == [kind |-> "null", str |-> "", num |-> 0, items |-> << >>]
StringValue(str) == [kind |-> "string", str |-> str, num |-> 0, items |-> << >>]
NumberValue(num) == [kind |-> "number", str |-> "", num |-> num, items |-> << >>]
ArrayValue(items) == [kind |-> "array", str |-> "", num |-> 0, items |-> items]

\* String(value)
StringOf(value) ==
    IF value.kind = "number" THEN ToString(value.num)
    ELSE IF value.kind = "string" THEN value.str
    ELSE value.kind

\* the truthiness of a value, as `if (params?.page)` tests it
Truthy(value) ==
    \/ value.kind = "number" /\ value.num # 0
    \/ value.kind = "string" /\ value.str # ""
    \/ value.kind = "array"

\* the application/x-www-form-urlencoded form of a string: a space becomes +
UrlEncode(str) == IF str = "a b" THEN "a+b" ELSE str

\* URLSearchParams.toString() of a list of <<name, value>> pairs
RECURSIVE toString(_)
toString(pairs) ==
    IF pairs = << >> THEN ""
    ELSE LET first == UrlEncode(pairs[1][1]) \o "=" \o UrlEncode(pairs[1][2])
         IN  IF Len(pairs) = 1 THEN first
             ELSE first \o "&" \o toString(Tail(pairs))

\* params?.key of a params object given as its list of entries
Field(params, key) ==
    IF \E i \in 1..Len(params) : params[i].key = key
    THEN params[CHOOSE i \in 1..Len(params) : params[i].key = key].value
    ELSE UndefinedValue

\* if (params?.key) queryParams.append(key, String(params.key))
appendIfTruthy(pairs, params, key) ==
    IF Truthy(Field(params, key))
    THEN Append(pairs, <<key, StringOf(Field(params, key))>>)
    ELSE pairs

appendIfDefined(pairs, params, key) ==
    IF Field(params, key).kind \notin {"undefined", "null"}
       /\ Field(params, key) # StringValue("")
    THEN Append(pairs, <<key, StringOf(Field(params, key))>>)
    ELSE pairs

\* queryString ? `${path}?${queryString}` : path
endpointOf(path, pairs) ==
    IF toString(pairs) # "" THEN path \o "?" \o toString(pairs) ELSE path

\* the fields each list operation copies, in the order of its appends
UsersFields == <<"page", "limit", "search", "role">>
ServersFields == <<"page", "limit", "status", "region">>
AlertsFields == <<"page", "limit", "severity", "status", "serverId">>
DeploymentsFields == <<"page", "limit", "status">>

RECURSIVE appendFieldsDefined(_, _, _)
appendFieldsDefined(pairs, params, fields) ==
    IF fields = << >> THEN pairs
    ELSE appendFieldsDefined(appendIfDefined(pairs, params, fields[1]),
                             params, Tail(fields))

\* the run of `if (params?.f) queryParams.append(...)` statements
RECURSIVE appendFields(_, _, _)
appendFields(pairs, params, fields) ==
    IF fields = << >> THEN pairs
    ELSE appendFields(appendIfTruthy(pairs, params, fields[1]),
                      params, Tail(fields))

\* the endpoint UserService.getUsers passes to apiService.get
getUsers(params) == endpointOf("/users", appendFields(<< >>, params, UsersFields))

\* the endpoints OrchestratorService passes to orchestratorService.get
getServers(params) ==
    endpointOf("/servers", appendFields(<< >>, params, ServersFields))

getAlerts(params) ==
    endpointOf("/alerts", appendFields(<< >>, params, AlertsFields))

getDeployments(params) ==
    endpointOf("/deployments", appendFields(<< >>, params, DeploymentsFields))

\* the body of buildQueryString's forEach for one entry
appendEntry(pairs, entry) ==
    IF entry.value.kind \notin {"null", "undefined"}
       /\ entry.value # StringValue("")
    THEN IF entry.value.kind = "array"
         THEN pairs \o [i \in 1..Len(entry.value.items) |->
                            <<entry.key, entry.value.items[i]>>]
         ELSE Append(pairs, <<entry.key, StringOf(entry.value)>>)
    ELSE pairs

RECURSIVE appendEntries(_, _)
appendEntries(pairs, params) ==
    IF params = << >> THEN pairs
    ELSE appendEntries(appendEntry(pairs, params[1]), Tail(params))

buildQueryStringTruthy(params) ==
    LET queryString == toString(appendFields(<< >>, params,
                                    [i \in 1..Len(params) |-> params[i].key]))
    IN  IF queryString # "" THEN "?" \o queryString ELSE ""

\* buildQueryString(params), params given as Object.entries(params)
buildQueryString(params) ==
    LET queryString == toString(appendEntries(<< >>, params))
    IN  IF queryString # "" THEN "?" \o queryString ELSE ""

\* no function called yet
QueryIdle == [fn |-> "none", params |-> << >>, out |-> "", done |-> FALSE]

-----------------------------------------------------------------------------
(* Hooks: useApi, useApiWithParams, useQuery and usePaginatedQuery *)

\* the state every hook starts with and reset() restores; data is the number
\* of the execute whose response it came from, 0 for null
IdleState == [data |-> 0, loading |-> FALSE, error |-> "null", success |-> FALSE]

\* no interval armed
NoInterval == [armed |-> FALSE, loading |-> FALSE]

\* history: how an execute began, what ended last, the last paging call
NoStart == [id |-> 0, origin |-> "none", enabled |-> FALSE, life |-> "new",
            args |-> << >>]
NoEvent == [event |-> "none", id |-> 0, ended |-> "none", data |-> 0,
            success |-> FALSE, onSuccessCalls |-> 0, onErrorCalls |-> 0,
            apiCalls |-> 0]
NoPaging == [op |-> "none", page |-> 0, limit |-> 0, argPage |-> 0,
             argLimit |-> << >>, issued |-> << >>, pageBefore |-> 0,
             limitBefore |-> 0]

\* a hook of a component that has not mounted yet
HookIdle ==
    [ kind       |-> "useApi",
      life       |-> "new",       \* new, mounted, unmounted
      immediate  |-> FALSE,       \* options.immediate; for useQuery, enabled
      refetchInterval |-> 0,      \* useQuery: 0 stands for undefined
      stable     |-> TRUE,        \* apiCall, onSuccess, onError keep their identity
      onSuccess  |-> "none",      \* none, ok, throws
      onError    |-> "none",      \* none, ok
      state      |-> IdleState,   \* useState of useApi / useApiWithParams
      page       |-> 1,           \* useState of usePaginatedQuery
      limit      |-> 10,
      view       |-> [loading |-> FALSE, page |-> 1, limit |-> 10,
                      immediate |-> FALSE, refetchInterval |-> 0],
                                  \* what the last render saw; closures read it
      dirty      |-> FALSE,       \* a render is scheduled
      interval   |-> NoInterval,  \* setInterval of useQuery and the
                                  \* apiHook.loading its callback closed over
      pending    |-> {},          \* executes awaiting apiCall
      started    |-> 0,           \* executes begun so far
      completed  |-> << >>,       \* history: executes in the order they ended
      lastStart  |-> NoStart,
      last       |-> NoEvent,
      paging     |-> NoPaging ]

\* setState of a component: dropped once the component has unmounted
setStateLatestOnly(h, call, s) == IF call.id = h.started THEN s ELSE h.state

setState(h, call, s) == IF h.life = "unmounted" THEN h.state ELSE s

\* execute up to the await of apiCall: loading set, error cleared
execute(h, origin, args) ==
    LET call == [id |-> h.started + 1, origin |-> origin, args |-> args]
    IN  [h EXCEPT !.state = setState(h, call, [h.state EXCEPT !.loading = TRUE,
                                                              !.error = "null"]),
                  !.dirty = (h.life = "mounted"),
                  !.pending = @ \cup {call},
                  !.started = call.id,
                  !.lastStart = [id |-> call.id, origin |-> origin,
                                 enabled |-> h.immediate, life |-> h.life,
                                 args |-> args],
                  !.last = [NoEvent EXCEPT !.event = "started", !.id = call.id,
                                          !.apiCalls = 1]]

catchStateKeepingData(h, error) ==
    [h.state EXCEPT !.loading = FALSE, !.error = error, !.success = FALSE]

\* the state the catch block of execute sets
catchState(h, error) ==
    [data |-> 0, loading |-> FALSE, error |-> error, success |-> FALSE]

\* execute after the await of apiCall, which resolved with a response whose
\* success flag is given or rejected: setState, the callback, return or throw
settle(h, call, resolved, success) ==
    LET thrown == IF ~resolved THEN "apiError"
                  ELSE IF h.onSuccess = "throws" THEN "callbackError"
                  ELSE "null"
        tried == [data |-> call.id, loading |-> FALSE, error |-> "null",
                  success |-> success]
        final == IF thrown = "null" THEN tried ELSE catchState(h, thrown)
    IN  [h EXCEPT !.state = setState(h, call, final),
                  !.dirty = (h.life = "mounted"),
                  !.pending = @ \ {call},
                  !.completed = Append(@, call.id),
                  !.last = [event |-> "settled", id |-> call.id,
                            ended |-> IF thrown = "null" THEN "returned"
                                      ELSE "raised",
                            data |-> call.id, success |-> success,
                            onSuccessCalls |-> IF resolved /\ h.onSuccess # "none"
                                               THEN 1 ELSE 0,
                            onErrorCalls |-> IF thrown # "null"
                                                /\ h.onError # "none"
                                             THEN 1 ELSE 0,
                            apiCalls |-> 1]]

\* reset()
reset(h) ==
    [h EXCEPT !.state = IF h.life = "unmounted" THEN h.state ELSE IdleState,
              !.dirty = (h.life = "mounted"),
              !.last = [NoEvent EXCEPT !.event = "reset"]]

\* what a render hands to the closures it creates
snapshot(h) ==
    [loading |-> h.state.loading, page |-> h.page, limit |-> h.limit,
     immediate |-> h.immediate, refetchInterval |-> h.refetchInterval]

\* the effect of useApi, deps [execute, immediate]: it runs on mount and when
\* a dependency has changed, and calls execute if immediate
immediateEffectRuns(h, first) ==
    /\ h.kind \in {"useApi", "useQuery"}
    /\ h.immediate
    /\ first \/ ~h.stable \/ h.view.immediate # h.immediate

\* the effect of usePaginatedQuery, deps [apiHook, page, limit]: apiHook is a
\* new object in every render, so it runs after every render
pageEffectRuns(h) == h.kind = "usePaginatedQuery"

intervalEffectNoCleanup(h, seen) ==
    IF h.kind = "useQuery" /\ h.refetchInterval # 0 /\ h.immediate
    THEN [armed |-> TRUE, loading |-> seen.loading]
    ELSE h.interval

\* the effect of useQuery, deps [refetchInterval, enabled, apiHook]: the
\* cleanup clears the interval of the previous run, then a new one is armed
\* if refetchInterval && enabled, closing over the apiHook of this render
intervalEffect(h, seen) ==
    IF h.kind = "useQuery" /\ h.refetchInterval # 0 /\ h.immediate
    THEN [armed |-> TRUE, loading |-> seen.loading]
    ELSE NoInterval

\* a render followed by its effects, in the order the hooks declare them
render(h, first) ==
    LET seen == snapshot(h)
        shown == [h EXCEPT !.view = seen, !.dirty = FALSE,
                           !.interval = intervalEffect(h, seen)]
    IN  IF immediateEffectRuns(h, first) THEN execute(shown, "immediate", << >>)
        ELSE IF pageEffectRuns(h)
        THEN execute(shown, "effect", <<seen.page, seen.limit>>)
        ELSE shown

\* fetchPage(newPage, newLimit?) of usePaginatedQuery; limit is the one of
\* the render that created the callback
fetchPage(h, newPage, newLimit) ==
    LET pageLimit == OrDefault(newLimit, h.view.limit)
        moved == [h EXCEPT !.page = newPage,
                           !.limit = OrDefault(newLimit, h.limit)]
    IN  execute(moved, "fetchPage", <<newPage, pageLimit>>)

nextPage(h) == fetchPage(h, h.view.page + 1, Undefined)

prevPageUnguarded(h) == fetchPage(h, h.view.page - 1, Undefined)

prevPage(h) == IF h.view.page > 1 THEN fetchPage(h, h.view.page - 1, Undefined)
               ELSE h

firstPage(h) == fetchPage(h, 1, Undefined)

-----------------------------------------------------------------------------
(* apiHelpers: handleApiError and ApiCache; the interceptor fields *)

\* the message handleApiError returns for an ApiError; "" is a message that
\* is undefined or empty
handleApiError(error) ==
    CASE error.status = 400 ->
            StrOrDefault(error.message, "Bad request. Please check your input.")
      [] error.status = 401 -> "You are not authorized. Please log in again."
      [] error.status = 403 ->
            "You do not have permission to perform this action."
      [] error.status = 404 -> "The requested resource was not found."
      [] error.status = 422 ->
            StrOrDefault(error.message,
                         "Validation failed. Please check your input.")
      [] error.status = 429 -> "Too many requests. Please try again later."
      [] error.status = 500 -> "Server error. Please try again later."
      [] error.status = 503 -> "Service unavailable. Please try again later."
      [] OTHER -> StrOrDefault(error.message, "An unexpected error occurred.")

NoMessage == [status |-> 0, message |-> "", out |-> "", done |-> FALSE]

\* ttlInMs: number = 300000
DefaultTtl == 300000

CacheKeys == {"k1", "k2"}

\* an entry of the Map; present is FALSE when the Map has no such key
NoEntry == [present |-> FALSE, data |-> "", timestamp |-> 0, ttl |-> 0]

EmptyCache == [k \in CacheKeys |-> NoEntry]

\* ApiCache.set: the default applies to an omitted ttl only
set(entries, key, data, ttlOpt, now) ==
    [entries EXCEPT ![key] =
        [present |-> TRUE, data |-> data, timestamp |-> now,
         ttl |-> IF ttlOpt = Undefined THEN DefaultTtl ELSE ttlOpt[1]]]

getExpiringAtTtl(entries, key, now) ==
    LET cached == entries[key]
    IN  IF ~cached.present
        THEN [cache |-> entries, value |-> "null"]
        ELSE IF now - cached.timestamp >= cached.ttl
             THEN [cache |-> [entries EXCEPT ![key] = NoEntry],
                   value |-> "null"]
             ELSE [cache |-> entries, value |-> cached.data]

\* ApiCache.get: the Map after the call and the value returned
get(entries, key, now) ==
    LET cached == entries[key]
    IN  IF ~cached.present
        THEN [cache |-> entries, value |-> "null"]
        ELSE IF now - cached.timestamp > cached.ttl
             THEN [cache |-> [entries EXCEPT ![key] = NoEntry],
                   value |-> "null"]
             ELSE [cache |-> entries, value |-> cached.data]

\* ApiCache.delete / clear
delete(entries, key) == [entries EXCEPT ![key] = NoEntry]

clear(entries) == EmptyCache

NoGet == [done |-> FALSE, key |-> "", at |-> 0, value |-> "null",
          written |-> NoEntry, kept |-> FALSE]

CacheLogIdle == [writes |-> EmptyCache, get |-> NoGet]

\* the two private fields, and how often makeRequest has called each
NoInterceptors == [request |-> FALSE, response |-> FALSE,
                   requestCalls |-> 0, responseCalls |-> 0]

HelpersIdle ==
    /\ userMessage = NoMessage
    /\ cache = EmptyCache
    /\ clock = 0
    /\ cacheLog = CacheLogIdle
    /\ interceptors = NoInterceptors

-----------------------------------------------------------------------------
(* Steps of a logical call *)

UrlUnchanged == UNCHANGED <<base, endpoint, url, urlBuilt>>

ProviderUnchanged == UNCHANGED provider

HookUnchanged == UNCHANGED hook

QueryUnchanged == UNCHANGED query

HelpersUnchanged == UNCHANGED <<userMessage, cache, clock, cacheLog, interceptors>>

\* slot s becomes call, and whoever awaits the call runs if it has settled;
\* an AuthService operation consumes the result of its call at once
Step(s, call) ==
    /\ calls' = [calls EXCEPT ![s] = IF call.pc \in {"returned", "raised"}
                                        /\ call.owner # "request"
                                     THEN IdleCall ELSE call]
    /\ LET after == continuation(call)
       IN  /\ authTokens' = after.tokens
           /\ storage' = after.storage
           /\ session' = after.session
    /\ provider' = providerContinuation(call)
    /\ UNCHANGED <<config, inst>>
    /\ HookUnchanged
    /\ QueryUnchanged
    /\ HelpersUnchanged
    /\ UrlUnchanged

\* get / post / put / patch / delete: makeRequest with attempt = 1
Request(s, owner, client, method, retriesOpt, timeoutOpt) ==
    /\ calls[s].pc = "idle"
    /\ Step(s, dispatch([IdleCall EXCEPT !.owner = owner,
                                         !.client = client,
                                         !.method = method,
                                         !.retriesOpt = retriesOpt,
                                         !.timeoutOpt = timeoutOpt], 1))

Get(s, client, retriesOpt, timeoutOpt) ==
    Request(s, "request", client, "GET", retriesOpt, timeoutOpt)

Post(s, client, retriesOpt, timeoutOpt) ==
    Request(s, "request", client, "POST", retriesOpt, timeoutOpt)

Put(s, client, retriesOpt, timeoutOpt) ==
    Request(s, "request", client, "PUT", retriesOpt, timeoutOpt)

Patch(s, client, retriesOpt, timeoutOpt) ==
    Request(s, "request", client, "PATCH", retriesOpt, timeoutOpt)

Delete(s, client, retriesOpt, timeoutOpt) ==
    Request(s, "request", client, "DELETE", retriesOpt, timeoutOpt)

\* fetch resolves with a response: the abort timer is cleared, the body is read
FetchResolves(s, status) ==
    /\ calls[s].pc = "fetching"
    /\ Step(s, [calls[s] EXCEPT !.pc = "decoding",
                                !.timer = << >>,
                                !.status = status])

\* response.json() / response.text() resolves with the decoded body
BodyDecoded(s, data) ==
    /\ calls[s].pc = "decoding"
    /\ Step(s, decoded(calls[s], data))

\* response.json() / response.text() rejects
BodyRejects(s) ==
    /\ calls[s].pc = "decoding"
    /\ Step(s, catch(calls[s], DecodeFailure, Outcome("decode", calls[s].status)))

\* fetch rejects without a response
FetchRejects(s) ==
    /\ calls[s].pc = "fetching"
    /\ Step(s, catch(calls[s], NetworkFailure, Outcome("network", 0)))

\* the abort timer fires while fetch is pending: fetch rejects with AbortError
TimerFires(s) ==
    /\ calls[s].pc = "fetching"
    /\ calls[s].timer # << >>
    /\ Step(s, catch(calls[s], AbortError, Outcome("abort", 0)))

\* the backoff sleep ends: makeRequest(url, options, attempt + 1)
SleepEnds(s) ==
    /\ calls[s].pc = "sleeping"
    /\ Step(s, dispatch(calls[s], calls[s].attempt + 1))

\* the caller has consumed the result; the slot is free again
Release(s) ==
    /\ calls[s].pc \in {"returned", "raised"}
    /\ calls' = [calls EXCEPT ![s] = IdleCall]
    /\ UNCHANGED <<config, inst, authTokens, storage, session>>
    /\ UrlUnchanged
    /\ ProviderUnchanged
    /\ HookUnchanged
    /\ QueryUnchanged
    /\ HelpersUnchanged

-----------------------------------------------------------------------------
(* Specification of one ApiService instance under every configuration *)

RetryInputs == {Undefined} \cup {<<n>> : n \in 0..MaxRetries}
DelayInputs == {Undefined, <<0>>, <<2>>}
TimeoutInputs == {Undefined, <<7>>}

\* the statuses and bodies a server may answer with
Statuses == {200, 201, 299, 300, 399, 400, 401, 404, 499, 500, 503}
Bodies == {EmptyText, PlainObject, ErrorObject}

UrlIdle ==
    /\ base = << >>
    /\ endpoint = << >>
    /\ url = << >>
    /\ urlBuilt = FALSE

Init ==
    /\ config \in [timeout : TimeoutInputs, retries : RetryInputs,
                   retryDelay : DelayInputs]
    /\ inst = Constructor(config)
    /\ authTokens = [c \in Clients |-> NoTokens]
    /\ storage = EmptyStorage
    /\ calls = [s \in Calls |-> IdleCall]
    /\ session = NoSession
    /\ UrlIdle
    /\ provider = ProviderIdle
    /\ hook = HookIdle
    /\ query = QueryIdle
    /\ HelpersIdle

Next ==
    \/ \E r \in RetryInputs, t \in TimeoutInputs : Get("c1", "main", r, t)
    \/ \E r \in RetryInputs, t \in TimeoutInputs : Post("c1", "main", r, t)
    \/ \E r \in RetryInputs, t \in TimeoutInputs : Put("c1", "main", r, t)
    \/ \E r \in RetryInputs, t \in TimeoutInputs : Patch("c1", "main", r, t)
    \/ \E r \in RetryInputs, t \in TimeoutInputs : Delete("c1", "main", r, t)
    \/ \E status \in Statuses : FetchResolves("c1", status)
    \/ \E data \in Bodies : BodyDecoded("c1", data)
    \/ BodyRejects("c1")
    \/ FetchRejects("c1")
    \/ TimerFires("c1")
    \/ SleepEnds("c1")
    \/ Release("c1")

Spec == Init /\ [][Next]_vars

-----------------------------------------------------------------------------
(* Properties of one logical call *)

Settled(call) == call.pc \in {"returned", "raised"}

Last(seq) == seq[Len(seq)]

RECURSIVE Sum(_)
Sum(seq) == IF seq = << >> THEN 0 ELSE seq[1] + Sum(Tail(seq))

\* 1 + 2 + ... + n
Triangle(n) == (n * (n + 1)) \div 2

\* the server answered HTTP 503, with a body that decoded, on every attempt
All503(call) ==
    \A i \in 1..Len(call.outcomes) : call.outcomes[i] = Outcome("http", 503)

\* C1: with retry count N, a call every attempt of which is answered HTTP 503
\* raises its error after exactly N + 1 attempts.
C1_AttemptsOn503 ==
    \A s \in Calls :
        (calls[s].pc = "raised" /\ All503(calls[s]))
            => Len(calls[s].outcomes)
                 = effectiveRetries(calls[s].retriesOpt, inst) + 1

\* C2: while fetch is pending the abort timer is armed with the effective
\* timeout, and a call whose last attempt was aborted by the timer raises an
\* error descriptor with code TIMEOUT and status 408.
C2_TimeoutRaised ==
    \A s \in Calls :
        /\ calls[s].pc = "fetching"
             => calls[s].timer
                  = <<IF calls[s].timeoutOpt \in {Undefined, <<0>>}
                      THEN inst.timeout ELSE calls[s].timeoutOpt[1]>>
        /\ (Settled(calls[s]) /\ Last(calls[s].outcomes).kind = "abort")
             => /\ calls[s].pc = "raised"
                /\ calls[s].result.kind = "error"
                /\ calls[s].result.code = "TIMEOUT"
                /\ calls[s].result.status = 408

\* every attempt of the call timed out, there were at least two, and the
\* error is raised
C2_Witness ==
    \E s \in Calls :
        /\ calls[s].pc = "raised"
        /\ Len(calls[s].outcomes) >= 2
        /\ \A i \in 1..Len(calls[s].outcomes) : calls[s].outcomes[i].kind = "abort"
        /\ calls[s].result.code = "TIMEOUT"

Is4xx(outcome) ==
    /\ outcome.kind \in {"http", "decode"}
    /\ outcome.status >= 400
    /\ outcome.status <= 499

Is2xx(status) == status >= 200 /\ status <= 299

\* C5 as stated: a settled call either returned a success envelope for a 2xx
\* status with the decoded body, or raised an error descriptor; and an error
\* descriptor is never built for a 2xx response.
C5_OutcomeAsStated ==
    \A s \in Calls :
        Settled(calls[s]) =>
            LET call == calls[s]
                last == Last(call.outcomes)
            IN  \/ /\ call.pc = "returned"
                   /\ call.result.kind = "envelope"
                   /\ call.result.success
                   /\ call.result.status = last.status
                   /\ Is2xx(last.status)
                   /\ call.result.data = call.decodedBody
                \/ /\ call.pc = "raised"
                   /\ call.result.kind = "error"
                   /\ ~(last.kind \in {"http", "decode"} /\ Is2xx(last.status))

\* C5 as amended: an error descriptor is built for a 2xx response only when
\* decoding its body failed.
C5_Outcome ==
    \A s \in Calls :
        Settled(calls[s]) =>
            LET call == calls[s]
                last == Last(call.outcomes)
            IN  \/ /\ call.pc = "returned"
                   /\ call.result.kind = "envelope"
                   /\ call.result.success
                   /\ last.kind = "http"
                   /\ call.result.status = last.status
                   /\ Is2xx(last.status)
                   /\ call.result.data = call.decodedBody
                \/ /\ call.pc = "raised"
                   /\ call.result.kind = "error"
                   /\ ~call.result.success
                   /\ ~(last.kind = "http" /\ Is2xx(last.status))

\* HTTP 201 with an object body, returned as an envelope
C5_Witness ==
    \E s \in Calls :
        /\ calls[s].pc = "returned"
        /\ Last(calls[s].outcomes) = Outcome("http", 201)
        /\ calls[s].result.status = 201
        /\ calls[s].result.data = PlainObject

\* C6: an attempt that failed at network level is the last one: no sleep and
\* no further attempt follows, and the call raises NETWORK_ERROR with status 0.
C6_NetworkNotRetried ==
    \A s \in Calls :
        \A i \in 1..Len(calls[s].outcomes) :
            calls[s].outcomes[i].kind = "network"
                => /\ calls[s].pc = "raised"
                   /\ i = Len(calls[s].outcomes)
                   /\ calls[s].attempt = i
                   /\ Len(calls[s].sleeps) = i - 1
                   /\ calls[s].result.kind = "error"
                   /\ calls[s].result.code = "NETWORK_ERROR"
                   /\ calls[s].result.status = 0

\* a first attempt that failed at network level although more were allowed
C6_Witness ==
    \E s \in Calls :
        /\ calls[s].pc = "raised"
        /\ calls[s].outcomes = <<Outcome("network", 0)>>
        /\ effectiveRetries(calls[s].retriesOpt, inst) >= 2

\* C7: when every attempt is answered HTTP 503, the k-th sleep lasts D * k and
\* the sleeps before the final error add up to at least D * (1 + ... + N).
C7_BackoffOn503 ==
    \A s \in Calls :
        (calls[s].pc = "raised" /\ All503(calls[s]))
            => /\ \A k \in 1..Len(calls[s].sleeps) :
                      calls[s].sleeps[k] = inst.retryDelay * k
               /\ Sum(calls[s].sleeps)
                    >= inst.retryDelay
                         * Triangle(effectiveRetries(calls[s].retriesOpt, inst))

\* C8: the retry count a call uses is the per-call override when one is
\* given, else the configured count, else 3.
C8_RetryCountUsed ==
    \A s \in Calls :
        calls[s].pc # "idle"
            => effectiveRetries(calls[s].retriesOpt, inst)
                 = IF calls[s].retriesOpt # Undefined THEN calls[s].retriesOpt[1]
                   ELSE IF config.retries # Undefined THEN config.retries[1]
                   ELSE 3

-----------------------------------------------------------------------------
(* Specification of buildURL over every base URL and endpoint *)

Chars == {"/", "a"}

Strings(n) == UNION {[1..k -> Chars] : k \in 0..n}

UrlInit ==
    /\ config = [timeout |-> Undefined, retries |-> Undefined,
                 retryDelay |-> Undefined]
    /\ inst = Constructor(config)
    /\ authTokens = [c \in Clients |-> NoTokens]
    /\ storage = EmptyStorage
    /\ calls = [s \in Calls |-> IdleCall]
    /\ session = NoSession
    /\ base \in Strings(MaxLen)
    /\ endpoint \in Strings(MaxLen)
    /\ url = << >>
    /\ urlBuilt = FALSE
    /\ provider = ProviderIdle
    /\ hook = HookIdle
    /\ query = QueryIdle
    /\ HelpersIdle

\* this.buildURL(endpoint)
BuildURL ==
    /\ ~urlBuilt
    /\ url' = buildURL(base, endpoint)
    /\ urlBuilt' = TRUE
    /\ UNCHANGED <<config, inst, authTokens, storage, calls, session,
                   base, endpoint>>
    /\ ProviderUnchanged
    /\ HookUnchanged
    /\ QueryUnchanged
    /\ HelpersUnchanged

UrlNext == BuildURL

SpecUrl == UrlInit /\ [][UrlNext]_vars

RECURSIVE TrimTrailing(_)
TrimTrailing(str) ==
    IF endsWithSlash(str) THEN TrimTrailing(SubSeq(str, 1, Len(str) - 1)) ELSE str

RECURSIVE TrimLeading(_)
TrimLeading(str) ==
    IF startsWithSlash(str) THEN TrimLeading(Tail(str)) ELSE str

\* base without its trailing slashes, one "/", the path without its leading ones
JoinedByOneSlash == TrimTrailing(base) \o <<"/">> \o TrimLeading(endpoint)

\* C9 as stated: for every base URL and every path, buildURL joins the two
\* with exactly one "/" at the junction.
C9_OneSlashAsStated == urlBuilt => url = JoinedByOneSlash

AtMostOneTrailing(str) ==
    ~(Len(str) >= 2 /\ str[Len(str)] = "/" /\ str[Len(str) - 1] = "/")

AtMostOneLeading(str) == ~(Len(str) >= 2 /\ str[1] = "/" /\ str[2] = "/")

\* C9 as amended: for every base URL with at most one trailing slash and
\* every path with at most one leading slash, buildURL joins the two with
\* exactly one "/" at the junction.
C9_OneSlash ==
    (urlBuilt /\ AtMostOneTrailing(base) /\ AtMostOneLeading(endpoint))
        => url = JoinedByOneSlash

\* a base with a trailing slash joined to a path with a leading slash
C9_Witness ==
    /\ urlBuilt
    /\ base = <<"a", "/">>
    /\ endpoint = <<"/", "a">>
    /\ url = <<"a", "/", "a">>

-----------------------------------------------------------------------------
(* Specification of AuthService over the exported instances *)

\* defaultConfig of the deployed instances: the environment's fallbacks
DeployedConfig == [timeout |-> <<15000>>, retries |-> <<2>>,
                   retryDelay |-> <<500>>]

\* a LoginResponse {token, expiresAt, tokenType}
LoginBody(token, tokenType) ==
    [kind |-> "object", message |-> "", code |-> "",
     token |-> token, tokenType |-> tokenType]

LoginBodies == {LoginBody("t1", ""), LoginBody("t2", "JWT")}

AuthStatuses == {200, 401, 503}

\* what the server sends to the call: a LoginResponse for a login that
\* succeeds, an object for any other success, an error object otherwise
ServerBodies(call) ==
    IF ~responseOk(call.status) THEN {ErrorObject}
    ELSE IF call.owner \in {"login", "quickLogin"} THEN LoginBodies
    ELSE {PlainObject}

AuthInit ==
    /\ config = DeployedConfig
    /\ inst = Constructor(config)
    /\ authTokens = [c \in Clients |-> NoTokens]
    /\ storage = EmptyStorage
    /\ calls = [s \in Calls |-> IdleCall]
    /\ session = NoSession
    /\ UrlIdle
    /\ provider = ProviderIdle
    /\ hook = HookIdle
    /\ query = QueryIdle
    /\ HelpersIdle

\* AuthService.login: authService.post('/login/authenticate', credentials)
Login(s) == Request(s, "login", "auth", "POST", Undefined, Undefined)

\* AuthService.quickLogin: authService.post('/login/quick-login')
QuickLogin(s) == Request(s, "quickLogin", "auth", "POST", Undefined, Undefined)

\* AuthService.logout, the version that awaits authService.post('/logout')
LogoutWithServerCall(s) ==
    Request(s, "logout", "auth", "POST", Undefined, Undefined)

\* AuthService.logout, the version without a server call
Logout ==
    /\ LET after == logoutLocal([tokens |-> authTokens, storage |-> storage,
                                 session |-> session])
       IN  /\ authTokens' = after.tokens
           /\ storage' = after.storage
           /\ session' = after.session
    /\ UNCHANGED <<config, inst, calls>>
    /\ UrlUnchanged
    /\ ProviderUnchanged
    /\ HookUnchanged
    /\ QueryUnchanged
    /\ HelpersUnchanged

\* slot c1 carries the call of an AuthService operation, slot c2 a request
\* some component makes meanwhile
AuthNext ==
    \/ Login("c1")
    \/ QuickLogin("c1")
    \/ LogoutWithServerCall("c1")
    \/ \E c \in Clients : Get("c2", c, Undefined, Undefined)
    \/ \E s \in Calls :
          \/ \E status \in AuthStatuses : FetchResolves(s, status)
          \/ \E data \in ServerBodies(calls[s]) : BodyDecoded(s, data)
          \/ BodyRejects(s)
          \/ FetchRejects(s)
          \/ TimerFires(s)
          \/ SleepEnds(s)
          \/ Release(s)
    \/ Logout

SpecAuth == AuthInit /\ [][AuthNext]_vars

\* the Authorization header that matches the token a login returned
HeaderOf(s) == <<StrOrDefault(s.tokenType, "Bearer"), s.token>>

\* C4: a request whose headers are built after a login or quickLogin has
\* succeeded carries the Authorization header of the token that login
\* returned, on the main and on the auth client; one built after a logout
\* carries none, and after a logout storage holds no authTokens entry.
C4_AuthHeaderFollowsSession ==
    /\ \A s \in Calls :
          (calls[s].pc # "idle" /\ calls[s].client \in {"main", "auth"})
              => /\ calls[s].seen.op \in {"login", "quickLogin"}
                      => calls[s].auth = HeaderOf(calls[s].seen)
                 /\ calls[s].seen.op = "logout" => calls[s].auth = << >>
    /\ session.op = "logout" => storage.authTokens.state = "absent"

\* a request sent through the main client after a login, carrying its token,
\* and a later one sent through the auth client after the logout that followed
C4_Witness ==
    \E s, t \in Calls :
        /\ calls[s].owner = "request"
        /\ calls[s].client = "main"
        /\ calls[s].seen.op = "login"
        /\ calls[s].auth = <<"Bearer", "t1">>
        /\ calls[t].pc = "fetching"
        /\ calls[t].client = "auth"
        /\ calls[t].seen.op = "logout"
        /\ calls[t].auth = << >>
        /\ session.op = "logout"
        /\ session.hadTokens

\* C10: when a logout has completed, neither the main nor the auth client
\* holds tokens, storage holds no authTokens entry and the logout resolved
\* with a success envelope, also when its server-side call failed.
C10_LogoutCleansUp ==
    session.op = "logout"
        => /\ authTokens["main"] = NoTokens
           /\ authTokens["auth"] = NoTokens
           /\ storage.authTokens.state = "absent"
           /\ session.reply.success
           /\ session.reply.status = 200

\* a logout of a logged-in session whose server-side call failed
C10_Witness ==
    /\ session.op = "logout"
    /\ session.serverCall = "failed"
    /\ session.hadTokens
    /\ authTokens["main"] = NoTokens

\* the tokens a completed login left behind, as a client holds them
TokensOf(s) == [isNull |-> FALSE, accessToken |-> s.token,
                tokenType |-> StrOrDefault(s.tokenType, "Bearer")]

\* C11: after a successful login every exported instance (main, auth and
\* orchestrator) holds the returned tokens, and a request whose headers are
\* built after it carries the Authorization header whichever instance sends it.
C11_AllServicesHoldTokens ==
    /\ session.op \in {"login", "quickLogin"}
          => \A c \in Clients : authTokens[c] = TokensOf(session)
    /\ \A s \in Calls :
          (calls[s].pc # "idle" /\ calls[s].seen.op \in {"login", "quickLogin"})
              => calls[s].auth = HeaderOf(calls[s].seen)

\* a request between the building of its headers and the end of its attempt
InFlight(call) == call.pc \in {"fetching", "decoding"}

\* C17: while an attempt is in flight its Authorization header stays the one
\* it was built with, whatever setAuthTokens or clearAuthTokens does meanwhile;
\* an attempt whose headers are built in a step gets the header of the tokens
\* its client holds at that moment.
C17_InFlightHeadersKept ==
    [][\A s \in Calls :
          /\ (InFlight(calls[s]) /\ InFlight(calls'[s])
                /\ calls'[s].attempt = calls[s].attempt)
                => calls'[s].auth = calls[s].auth
          /\ (calls'[s].pc = "fetching"
                /\ (calls[s].pc # "fetching"
                      \/ calls'[s].attempt # calls[s].attempt))
                => calls'[s].auth = buildHeaders(authTokens[calls'[s].client])
      ]_vars

\* a request sent with a login's token is still in flight after a logout has
\* cleared the tokens of its client
C17_Witness ==
    \E s \in Calls :
        /\ calls[s].owner = "request"
        /\ InFlight(calls[s])
        /\ calls[s].auth = <<"Bearer", "t1">>
        /\ authTokens[calls[s].client] = NoTokens
        /\ session.op = "logout"

\* C24 as stated: all attempts of one logical call carry the Authorization
\* header of its first attempt
C24_SameHeaderAllAttempts ==
    \A s \in Calls :
        \A i \in 1..Len(calls[s].headers) :
            calls[s].headers[i] = calls[s].headers[1]

\* C24: every attempt of a logical call, the first and each retry, carries the
\* Authorization header matching the tokens its client holds when that attempt
\* is dispatched; the headers of the attempts before it stay as they were sent.
C24_HeaderPerAttempt ==
    [][\A s \in Calls :
          Len(calls'[s].headers) = Len(calls[s].headers) + 1
            => /\ Last(calls'[s].headers)
                    = buildHeaders(authTokens[calls'[s].client])
               /\ calls'[s].auth = Last(calls'[s].headers)
               /\ SubSeq(calls'[s].headers, 1, Len(calls[s].headers))
                    = calls[s].headers
      ]_vars

\* a request first sent with a login's token is retried without a header
\* after a logout has cleared the tokens between the two attempts
C24_Witness ==
    \E s \in Calls :
        /\ calls[s].owner = "request"
        /\ calls[s].headers = << <<"Bearer", "t1">>, << >> >>
        /\ calls[s].attempt = 2

-----------------------------------------------------------------------------
(* Specification of the AuthProvider over the exported instances *)

\* what localStorage may hold when the page loads: nothing, the JSON text of
\* an object (with or without an access token), or text that does not parse
Corrupt == [state |-> "corrupt", token |-> "", tokenType |-> ""]

StoredTokens == {Absent, Corrupt,
                 [state |-> "json", token |-> "t1", tokenType |-> "Bearer"],
                 [state |-> "json", token |-> "", tokenType |-> ""]}

StoredLogins == {Absent, Corrupt,
                 [state |-> "json", token |-> "t1", tokenType |-> "Bearer"]}

\* the body of an answer to GET /login/validate
ValidationBodies(call) ==
    IF ~responseOk(call.status) THEN {ErrorObject} ELSE {PlainObject, EmptyText}

ProviderInit ==
    /\ config = DeployedConfig
    /\ inst = Constructor(config)
    /\ authTokens = [c \in Clients |-> NoTokens]
    /\ storage \in [authTokens : StoredTokens, loginResponse : StoredLogins]
    /\ calls = [s \in Calls |-> IdleCall]
    /\ session = NoSession
    /\ UrlIdle
    /\ provider = ProviderIdle
    /\ hook = HookIdle
    /\ query = QueryIdle
    /\ HelpersIdle

\* the mount effect of AuthProvider: initializeAuth, then validateToken()
\* up to its await if a token is held, else setLoading(false)
Mount ==
    /\ ~provider.mounted
    /\ calls["c1"].pc = "idle"
    /\ LET after == initializeAuth([tokens |-> authTokens, storage |-> storage,
                                    session |-> session])
           ran == [NoOperation EXCEPT
                      !.op = "initializeAuth",
                      !.failed = (storage.authTokens.state = "corrupt")]
       IN  /\ authTokens' = after.tokens
           /\ storage' = after.storage
           /\ session' = after.session
           /\ IF isAuthenticated(after.tokens)
              THEN /\ calls' = [calls EXCEPT !["c1"] =
                          [dispatch([IdleCall EXCEPT !.owner = "validate",
                                                     !.client = "auth"], 1)
                              EXCEPT !.auth = buildHeaders(after.tokens["auth"])]]
                   /\ provider' = [provider EXCEPT !.mounted = TRUE,
                                                   !.last = ran]
              ELSE /\ calls' = calls
                   /\ provider' = [provider EXCEPT !.mounted = TRUE,
                                                   !.loading = FALSE,
                                                   !.last = ran]
    /\ UNCHANGED <<config, inst>>
    /\ UrlUnchanged
    /\ HookUnchanged
    /\ QueryUnchanged
    /\ HelpersUnchanged

\* validateToken of the context value: authService.get('/login/validate')
ProviderValidate(s) ==
    /\ provider.mounted
    /\ Request(s, "validate", "auth", "GET", Undefined, Undefined)

\* logout of the context value: await AuthService.logout(); setUser(null)
ProviderLogout ==
    /\ provider.mounted
    /\ LET after == logoutLocal([tokens |-> authTokens, storage |-> storage,
                                 session |-> session])
       IN  /\ authTokens' = after.tokens
           /\ storage' = after.storage
           /\ session' = after.session
    /\ provider' = [provider EXCEPT !.user = "null",
                                    !.last = [NoOperation EXCEPT !.op = "logout"]]
    /\ UNCHANGED <<config, inst, calls>>
    /\ UrlUnchanged
    /\ HookUnchanged
    /\ QueryUnchanged
    /\ HelpersUnchanged

\* AuthService.getStoredLoginResponse()
GetStoredLoginResponse ==
    /\ LET read == getStoredLoginResponse([tokens |-> authTokens,
                                           storage |-> storage,
                                           session |-> session])
       IN  /\ storage' = read.storage
           /\ provider' = [provider EXCEPT !.last =
                             [NoOperation EXCEPT
                                 !.op = "getStoredLoginResponse",
                                 !.failed = (storage.loginResponse.state
                                               = "corrupt")]]
    /\ UNCHANGED <<config, inst, authTokens, calls, session>>
    /\ UrlUnchanged
    /\ HookUnchanged
    /\ QueryUnchanged
    /\ HelpersUnchanged

ProviderNext ==
    \/ Mount
    \/ ProviderValidate("c1")
    \/ ProviderLogout
    \/ GetStoredLoginResponse
    \/ \E status \in AuthStatuses : FetchResolves("c1", status)
    \/ \E data \in ValidationBodies(calls["c1"]) : BodyDecoded("c1", data)
    \/ BodyRejects("c1")
    \/ FetchRejects("c1")
    \/ TimerFires("c1")
    \/ SleepEnds("c1")

SpecProvider == ProviderInit /\ [][ProviderNext]_vars

\* the attempt that ended the validation call ended in an error
ValidationFailed(outcome) ==
    ~(outcome.kind = "http" /\ responseOk(outcome.status))

C18_StorageRemoved ==
    /\ provider.last.op = "logout" => storage = EmptyStorage
    /\ (provider.last.op \in {"initializeAuth", "getStoredLoginResponse"}
          /\ provider.last.failed)
          => storage = EmptyStorage
    /\ (provider.last.op = "initializeAuth" /\ provider.last.failed)
          => /\ authTokens["main"] = NoTokens
             /\ authTokens["auth"] = NoTokens

\* C28: whenever the mounted provider shows loading false and user null,
\* AuthService.isAuthenticated() is false: no client holds an access token
\* and local storage has no authTokens entry.
C28_SignedOutMeansNoTokens ==
    (provider.mounted /\ ~provider.loading /\ provider.user = "null")
        => /\ ~isAuthenticated(authTokens)
           /\ \A c \in {"main", "auth"} : authTokens[c] = NoTokens
           /\ storage.authTokens = Absent

-----------------------------------------------------------------------------
(* Specification of the query-string functions over bounded params objects *)

Facades == {"getUsers", "getServers", "getAlerts", "getDeployments"}

FieldsOf(fn) ==
    IF fn = "getUsers" THEN UsersFields
    ELSE IF fn = "getServers" THEN ServersFields
    ELSE IF fn = "getAlerts" THEN AlertsFields
    ELSE DeploymentsFields

PathOf(fn) ==
    IF fn = "getUsers" THEN "/users"
    ELSE IF fn = "getServers" THEN "/servers"
    ELSE IF fn = "getAlerts" THEN "/alerts"
    ELSE "/deployments"

\* the values a caller may put in a field: page and limit are numbers, the
\* other filter fields of the facades are strings
NumberInputs == {UndefinedValue, NumberValue(0), NumberValue(2)}
StringInputs == {UndefinedValue, StringValue(""), StringValue("a b")}

FacadeEntries(fn) ==
    {e \in [key : {FieldsOf(fn)[i] : i \in 1..Len(FieldsOf(fn))},
            value : NumberInputs \cup StringInputs] :
        e.value \in IF e.key \in {"page", "limit"} THEN NumberInputs
                    ELSE StringInputs}

\* the entries of a Record<string, unknown> handed to buildQueryString
HelperEntries ==
    [key : {"page"}, value : {NumberValue(0), NumberValue(2)}]
    \cup [key : {"limit"}, value : {NumberValue(10)}]
    \cup [key : {"search"}, value : {StringValue(""), StringValue("a b")}]
    \cup [key : {"role"}, value : {UndefinedValue, NullValue}]
    \cup [key : {"ids"}, value : {ArrayValue(<< >>), ArrayValue(<<"x", "y">>)}]

\* the objects with at most n of the given entries, keys distinct, as the
\* lists Object.entries gives for them
Objects(entries, n) ==
    UNION {{params \in [1..k -> entries] :
               \A i, j \in 1..k : i # j => params[i].key # params[j].key}
           : k \in 0..n}

QueryInit ==
    /\ config = DeployedConfig
    /\ inst = Constructor(config)
    /\ authTokens = [c \in Clients |-> NoTokens]
    /\ storage = EmptyStorage
    /\ calls = [s \in Calls |-> IdleCall]
    /\ session = NoSession
    /\ UrlIdle
    /\ provider = ProviderIdle
    /\ hook = HookIdle
    /\ HelpersIdle
    /\ \E fn \in Facades \cup {"buildQueryString"} :
          \E params \in IF fn = "buildQueryString"
                        THEN Objects(HelperEntries, MaxFields)
                        ELSE Objects(FacadeEntries(fn), MaxFields) :
             query = [fn |-> fn, params |-> params, out |-> "", done |-> FALSE]

QueryFrame ==
    /\ UNCHANGED <<config, inst, authTokens, storage, calls, session>>
    /\ UrlUnchanged
    /\ ProviderUnchanged
    /\ HookUnchanged
    /\ HelpersUnchanged

Built(out) == query' = [query EXCEPT !.out = out, !.done = TRUE]

GetUsers ==
    /\ query.fn = "getUsers" /\ ~query.done
    /\ Built(getUsers(query.params))
    /\ QueryFrame

GetServers ==
    /\ query.fn = "getServers" /\ ~query.done
    /\ Built(getServers(query.params))
    /\ QueryFrame

GetAlerts ==
    /\ query.fn = "getAlerts" /\ ~query.done
    /\ Built(getAlerts(query.params))
    /\ QueryFrame

GetDeployments ==
    /\ query.fn = "getDeployments" /\ ~query.done
    /\ Built(getDeployments(query.params))
    /\ QueryFrame

BuildQueryString ==
    /\ query.fn = "buildQueryString" /\ ~query.done
    /\ Built(buildQueryString(query.params))
    /\ QueryFrame

QueryNext ==
    \/ GetUsers
    \/ GetServers
    \/ GetAlerts
    \/ GetDeployments
    \/ BuildQueryString

SpecQuery == QueryInit /\ [][QueryNext]_vars

\* the supplied entries that are defined and non-empty, 0 included, as
\* <<name, value>> pairs in the order of the entries
SuppliedPairs(params) ==
    LET Kept(e) == e.value.kind # "undefined" /\ e.value # StringValue("")
        keep == SelectSeq(params, Kept)
    IN  [i \in 1..Len(keep) |-> <<keep[i].key, StringOf(keep[i].value)>>]

\* the fields of the operation's list whose supplied value is truthy, as
\* <<name, value>> pairs in the order of that list
TruthyPairs(fn, params) ==
    LET Kept(k) == Truthy(Field(params, k))
        keep == SelectSeq(FieldsOf(fn), Kept)
    IN  [i \in 1..Len(keep) |-> <<keep[i], StringOf(Field(params, keep[i]))>>]

\* path, then "?" and the pairs joined by "&" unless there is no pair
WithQuery(path, pairs) ==
    IF pairs = << >> THEN path ELSE path \o "?" \o toString(pairs)

\* C19 as stated: the endpoint of a facade list operation carries exactly the
\* supplied fields that are defined and non-empty (0 counting as defined), in
\* the order the caller supplied them, and no query string when there are none.
C19_QueryAsStated ==
    (query.done /\ query.fn \in Facades)
        => query.out = WithQuery(PathOf(query.fn), SuppliedPairs(query.params))

\* C19, amended: the endpoint of a facade list operation carries exactly the
\* supplied fields whose value is truthy (not undefined, not "", not 0), in
\* the fixed order of the operation's own field list, and no query string
\* when there are none.
C19_Query ==
    (query.done /\ query.fn \in Facades)
        => query.out = WithQuery(PathOf(query.fn),
                                 TruthyPairs(query.fn, query.params))

\* getUsers({search: 'a b', page: 0, limit: 2}) has asked for
\* /users?limit=2&search=a+b
C19_Witness ==
    /\ query.done
    /\ query.fn = "getUsers"
    /\ query.params = <<[key |-> "search", value |-> StringValue("a b")],
                        [key |-> "page", value |-> NumberValue(0)],
                        [key |-> "limit", value |-> NumberValue(2)]>>
    /\ query.out = "/users?limit=2&search=a+b"

\* an entry counts unless its value is null, undefined or the empty string
Qualifies(e) ==
    e.value.kind \notin {"null", "undefined"} /\ e.value # StringValue("")

\* the pairs of the qualifying entries in entry order, one per element for an
\* array value
RECURSIVE PairsOf(_)
PairsOf(params) ==
    IF params = << >> THEN << >>
    ELSE LET e == params[1]
             mine == IF ~Qualifies(e) THEN << >>
                     ELSE IF e.value.kind = "array"
                     THEN [i \in 1..Len(e.value.items) |->
                              <<e.key, e.value.items[i]>>]
                     ELSE <<<<e.key, StringOf(e.value)>>>>
         IN  mine \o PairsOf(Tail(params))

\* the example of the documentation
ExampleParams ==
    <<[key |-> "page", value |-> NumberValue(2)],
      [key |-> "limit", value |-> NumberValue(10)],
      [key |-> "search", value |-> StringValue("")],
      [key |-> "role", value |-> UndefinedValue]>>

\* C20 as stated: buildQueryString returns "?" followed by the pairs of the
\* qualifying entries, and the empty string when no entry qualifies.
C20_BuildAsStated ==
    (query.done /\ query.fn = "buildQueryString")
        => query.out = IF SelectSeq(query.params, Qualifies) = << >> THEN ""
                       ELSE "?" \o toString(PairsOf(query.params))

\* C20, amended: buildQueryString returns "?" followed by the pairs of the
\* qualifying entries in entry order (one pair per element of an array
\* value), and the empty string when there is no pair at all: when no entry
\* qualifies or every qualifying value is an empty array.  The example
\* {page: 2, limit: 10, search: "", role: undefined} gives "?page=2&limit=10".
C20_Build ==
    /\ (query.done /\ query.fn = "buildQueryString")
          => query.out = IF PairsOf(query.params) = << >> THEN ""
                         ELSE "?" \o toString(PairsOf(query.params))
    /\ buildQueryString(ExampleParams) = "?page=2&limit=10"

\* buildQueryString({ids: ['x', 'y'], search: '', page: 0}) has returned
\* ?ids=x&ids=y&page=0
C20_Witness ==
    /\ query.done
    /\ query.fn = "buildQueryString"
    /\ query.params = <<[key |-> "ids", value |-> ArrayValue(<<"x", "y">>)],
                        [key |-> "search", value |-> StringValue("")],
                        [key |-> "page", value |-> NumberValue(0)]>>
    /\ query.out = "?ids=x&ids=y&page=0"

-----------------------------------------------------------------------------
(* Specification of one useApi / useApiWithParams hook *)

\* the part of the state no hook touches
HookFrame ==
    /\ UNCHANGED <<config, inst, authTokens, storage, calls, session>>
    /\ UrlUnchanged
    /\ ProviderUnchanged
    /\ QueryUnchanged
    /\ HelpersUnchanged

ServicesIdle ==
    /\ config = DeployedConfig
    /\ inst = Constructor(config)
    /\ authTokens = [c \in Clients |-> NoTokens]
    /\ storage = EmptyStorage
    /\ calls = [s \in Calls |-> IdleCall]
    /\ session = NoSession
    /\ UrlIdle
    /\ provider = ProviderIdle
    /\ query = QueryIdle
    /\ HelpersIdle

HookInit ==
    /\ ServicesIdle
    /\ \E kind \in {"useApi", "useApiWithParams"}, immediate, stable \in BOOLEAN,
          onSuccess \in {"none", "ok", "throws"}, onError \in {"none", "ok"} :
          /\ kind = "useApiWithParams" => ~immediate
          /\ hook = [HookIdle EXCEPT !.kind = kind, !.immediate = immediate,
                                     !.stable = stable, !.onSuccess = onSuccess,
                                     !.onError = onError]

\* whether the effects of the next render call execute
RenderStarts(h, first) == immediateEffectRuns(h, first) \/ pageEffectRuns(h)

\* the component mounts: first render, every effect runs
HookMount ==
    /\ hook.life = "new"
    /\ hook' = render([hook EXCEPT !.life = "mounted"], TRUE)
    /\ HookFrame

\* the component calls execute()
Execute ==
    /\ hook.life = "mounted"
    /\ hook.started < MaxCalls
    /\ hook' = execute(hook, "manual",
                       IF hook.kind = "usePaginatedQuery"
                       THEN <<hook.view.page, hook.view.limit>> ELSE << >>)
    /\ HookFrame

\* apiCall resolves with a response
ApiCallResolves ==
    /\ \E call \in hook.pending, success \in BOOLEAN :
          hook' = settle(hook, call, TRUE, success)
    /\ HookFrame

\* apiCall rejects with an ApiError
ApiCallRejects ==
    /\ \E call \in hook.pending : hook' = settle(hook, call, FALSE, FALSE)
    /\ HookFrame

\* the component calls reset()
Reset ==
    /\ hook.life = "mounted"
    /\ hook' = reset(hook)
    /\ HookFrame

\* React renders the component again after a setState
Render ==
    /\ hook.life = "mounted"
    /\ hook.dirty
    /\ RenderStarts(hook, FALSE) => hook.started < MaxCalls
    /\ hook' = render(hook, FALSE)
    /\ HookFrame

\* the component unmounts: the cleanup of every effect runs
Unmount ==
    /\ hook.life = "mounted"
    /\ hook' = [hook EXCEPT !.life = "unmounted", !.dirty = FALSE,
                            !.interval = NoInterval]
    /\ HookFrame

HookNext ==
    \/ HookMount
    \/ Execute
    \/ ApiCallResolves
    \/ ApiCallRejects
    \/ Reset
    \/ Render
    \/ Unmount

SpecHook == HookInit /\ [][HookNext]_vars

\* C13: an execute that has just begun leaves loading = true and error =
\* null; one that has just ended leaves either the success state (loading =
\* false, error = null, data = the response's data, success = the response's
\* flag, nothing raised) or the error state (loading = false, data = null,
\* success = false, error set, onError called once if supplied, the error
\* raised again, apiCall called once), the latter exactly when apiCall
\* rejected or onSuccess threw; after reset every field has its idle value.
C13_ExecuteOutcome ==
    hook.life = "mounted"
        => /\ hook.last.event = "started"
                => hook.state.loading /\ hook.state.error = "null"
           /\ hook.last.event = "settled"
                => \/ /\ hook.last.ended = "returned"
                      /\ hook.state = [data |-> hook.last.data,
                                       loading |-> FALSE, error |-> "null",
                                       success |-> hook.last.success]
                      /\ hook.last.onErrorCalls = 0
                   \/ /\ hook.last.ended = "raised"
                      /\ hook.state.data = 0
                      /\ ~hook.state.loading
                      /\ ~hook.state.success
                      /\ hook.state.error # "null"
                      /\ hook.last.onErrorCalls = IF hook.onError = "none"
                                                  THEN 0 ELSE 1
                      /\ hook.last.apiCalls = 1
           /\ (hook.last.event = "settled" /\ hook.state.error = "apiError")
                => hook.last.onSuccessCalls = 0
           /\ hook.last.event = "reset" => hook.state = IdleState

\* after a first execute that succeeded, a second one, alone in flight, has
\* failed: data is null again and onError has been called once
C13_Witness ==
    /\ hook.life = "mounted"
    /\ hook.onError = "ok"
    /\ hook.completed = <<1, 2>>
    /\ hook.pending = {}
    /\ hook.last.id = 2
    /\ hook.last.ended = "raised"
    /\ hook.last.onErrorCalls = 1
    /\ hook.state = [data |-> 0, loading |-> FALSE, error |-> "apiError",
                     success |-> FALSE]

\* C14: every execute begun is in flight or has ended on its own (none is
\* cancelled or merged into another), and once none is in flight the data,
\* error and success of the hook are those of the execute that ended last,
\* whichever was begun first.
C14_LastCompletionWins ==
    /\ hook.started = Len(hook.completed) + Cardinality(hook.pending)
    /\ \A i, j \in 1..Len(hook.completed) :
          i # j => hook.completed[i] # hook.completed[j]
    /\ (hook.life = "mounted" /\ hook.pending = {}
          /\ hook.last.event = "settled")
          => /\ hook.last.id = hook.completed[Len(hook.completed)]
             /\ hook.state.data = IF hook.last.ended = "returned"
                                  THEN hook.last.id ELSE 0
             /\ (hook.state.error = "null") <=> (hook.last.ended = "returned")
             /\ hook.state.success = (hook.last.ended = "returned"
                                        /\ hook.last.success)

\* two overlapping executes of which the one begun first ended last: the
\* hook shows the data of the first
C14_Witness ==
    /\ hook.life = "mounted"
    /\ hook.completed = <<2, 1>>
    /\ hook.pending = {}
    /\ hook.last.event = "settled"
    /\ hook.state.data = 1
    /\ hook.state.success

\* C25: a hook mounted with immediate execution starts the underlying call
\* exactly once, at mount, whether the caller's function is the same at every
\* render or re-created at each; no later render starts a further call.
C25_OneCallAtMount ==
    /\ (hook.immediate /\ hook.life # "new") => hook.started >= 1
    /\ hook.lastStart.origin = "immediate" => hook.lastStart.id = 1

-----------------------------------------------------------------------------
(* Specification of one useQuery hook *)

\* refetchInterval as given in the options: 0 stands for none
Intervals == {0, 5}

PollingInit ==
    /\ ServicesIdle
    /\ \E enabled, stable \in BOOLEAN, refetchInterval \in Intervals :
          hook = [HookIdle EXCEPT !.kind = "useQuery", !.immediate = enabled,
                                  !.stable = stable,
                                  !.refetchInterval = refetchInterval]

\* the interval fires: if (!apiHook.loading) apiHook.execute()
Tick ==
    /\ hook.interval.armed
    /\ ~hook.interval.loading
    /\ hook.started < MaxCalls
    /\ hook' = execute(hook, "poll", << >>)
    /\ HookFrame

\* the parent renders the component with other options
SetOptions(enabled, refetchInterval) ==
    /\ hook.life = "mounted"
    /\ <<enabled, refetchInterval>> # <<hook.immediate, hook.refetchInterval>>
    /\ LET given == [hook EXCEPT !.immediate = enabled,
                                 !.refetchInterval = refetchInterval]
       IN  /\ RenderStarts(given, FALSE) => hook.started < MaxCalls
           /\ hook' = render(given, FALSE)
    /\ HookFrame

PollingNext ==
    \/ HookMount
    \/ Execute
    \/ ApiCallResolves
    \/ ApiCallRejects
    \/ Reset
    \/ Render
    \/ Unmount
    \/ Tick
    \/ \E enabled \in BOOLEAN, refetchInterval \in Intervals :
          SetOptions(enabled, refetchInterval)

SpecPolling == PollingInit /\ [][PollingNext]_vars

\* C15: an interval is armed only while the component is mounted, enabled is
\* true and refetchInterval is set, so neither after the unmount nor while
\* enabled is false can it fire; every execute the interval began, and every
\* execute the immediate effect began, began with the component mounted and
\* enabled true.
C15_PollingStops ==
    /\ hook.interval.armed
          => /\ hook.life = "mounted"
             /\ hook.immediate
             /\ hook.refetchInterval # 0
    /\ hook.lastStart.origin \in {"poll", "immediate"}
          => /\ hook.lastStart.enabled
             /\ hook.lastStart.life = "mounted"

\* the interval began an execute, then enabled became false: the interval is
\* gone although refetchInterval is still set
C15_Witness ==
    /\ hook.life = "mounted"
    /\ hook.lastStart.origin = "poll"
    /\ ~hook.immediate
    /\ hook.refetchInterval # 0
    /\ ~hook.interval.armed

\* C27: while the hook is mounted, loading is true whenever an execute is in
\* flight, whatever the order of executes, completions, polling ticks and
\* resets; so a polling tick never starts a call while another is in flight.
C27_LoadingWhileInFlight ==
    /\ []((hook.life = "mounted" /\ hook.pending # {}) => hook.state.loading)
    /\ [][(hook'.started # hook.started /\ hook'.lastStart.origin = "poll")
            => hook.pending = {}]_vars

-----------------------------------------------------------------------------
(* Specification of one usePaginatedQuery hook *)

InitialPages == {1, 2}
InitialLimit == 10

\* the arguments fetchPage is called with
PageInputs == {1, 3}
LimitInputs == {Undefined, <<0>>, <<20>>}

PagedInit ==
    /\ ServicesIdle
    /\ \E page \in InitialPages :
          hook = [HookIdle EXCEPT !.kind = "usePaginatedQuery", !.page = page,
                                  !.limit = InitialLimit]

\* history of a paging call: the page and limit of the render whose callback
\* was called, the arguments, the arguments of the execute it issued (<< >>
\* for none) and the tracked page and limit before it
paged(h, op, argPage, argLimit, after) ==
    [after EXCEPT !.paging =
        [op |-> op, page |-> h.view.page, limit |-> h.view.limit,
         argPage |-> argPage, argLimit |-> argLimit,
         issued |-> IF after.started # h.started THEN after.lastStart.args
                    ELSE << >>,
         pageBefore |-> h.page, limitBefore |-> h.limit]]

NextPage ==
    /\ hook.life = "mounted"
    /\ hook.started < MaxCalls
    /\ hook' = paged(hook, "nextPage", 0, Undefined, nextPage(hook))
    /\ HookFrame

PrevPage ==
    /\ hook.life = "mounted"
    /\ hook.started < MaxCalls
    /\ hook' = paged(hook, "prevPage", 0, Undefined, prevPage(hook))
    /\ HookFrame

FirstPage ==
    /\ hook.life = "mounted"
    /\ hook.started < MaxCalls
    /\ hook' = paged(hook, "firstPage", 0, Undefined, firstPage(hook))
    /\ HookFrame

FetchPage(newPage, newLimit) ==
    /\ hook.life = "mounted"
    /\ hook.started < MaxCalls
    /\ hook' = paged(hook, "fetchPage", newPage, newLimit,
                     fetchPage(hook, newPage, newLimit))
    /\ HookFrame

PagedNext ==
    \/ HookMount
    \/ Execute
    \/ ApiCallResolves
    \/ ApiCallRejects
    \/ Reset
    \/ Render
    \/ Unmount
    \/ NextPage
    \/ PrevPage
    \/ FirstPage
    \/ \E newPage \in PageInputs, newLimit \in LimitInputs :
          FetchPage(newPage, newLimit)

SpecPaged == PagedInit /\ [][PagedNext]_vars

\* what nextPage, prevPage and firstPage do, page and limit being those of
\* the render whose callback was called
PagingSteps ==
    /\ hook.paging.op = "nextPage"
          => /\ hook.paging.issued = <<hook.paging.page + 1, hook.paging.limit>>
             /\ hook.page = hook.paging.page + 1
    /\ (hook.paging.op = "prevPage" /\ hook.paging.page > 1)
          => /\ hook.paging.issued = <<hook.paging.page - 1, hook.paging.limit>>
             /\ hook.page = hook.paging.page - 1
    /\ (hook.paging.op = "prevPage" /\ hook.paging.page = 1)
          => /\ hook.paging.issued = << >>
             /\ hook.page = hook.paging.pageBefore
             /\ hook.limit = hook.paging.limitBefore
    /\ hook.paging.op = "firstPage"
          => /\ hook.paging.issued = <<1, hook.paging.limit>>
             /\ hook.page = 1

\* C16 as stated: nextPage issues (page + 1, limit) and tracks page + 1;
\* prevPage issues (page - 1, limit) when page > 1 and does nothing when page
\* is 1; firstPage issues (1, limit); fetchPage(p, l) issues (p, l) and
\* tracks page p and limit l.
C16_PagingAsStated ==
    /\ PagingSteps
    /\ (hook.paging.op = "fetchPage" /\ hook.paging.argLimit # Undefined)
          => /\ hook.paging.issued = <<hook.paging.argPage,
                                       hook.paging.argLimit[1]>>
             /\ hook.page = hook.paging.argPage
             /\ hook.limit = hook.paging.argLimit[1]

\* C16, amended: as stated for nextPage, prevPage and firstPage; fetchPage(p, l)
\* issues (p, l) and tracks page p and limit l when l is not 0, and when l is
\* 0 or omitted it issues (p, limit) and tracks page p, the limit staying as
\* it was.
C16_Paging ==
    /\ PagingSteps
    /\ (hook.paging.op = "fetchPage"
          /\ hook.paging.argLimit \notin {Undefined, <<0>>})
          => /\ hook.paging.issued = <<hook.paging.argPage,
                                       hook.paging.argLimit[1]>>
             /\ hook.page = hook.paging.argPage
             /\ hook.limit = hook.paging.argLimit[1]
    /\ (hook.paging.op = "fetchPage"
          /\ hook.paging.argLimit \in {Undefined, <<0>>})
          => /\ hook.paging.issued = <<hook.paging.argPage, hook.paging.limit>>
             /\ hook.page = hook.paging.argPage
             /\ hook.limit = hook.paging.limitBefore

\* prevPage on page 2 of an (initialPage 2) hook: (1, 10) is asked for and
\* page 1 tracked
C16_Witness ==
    /\ hook.paging.op = "prevPage"
    /\ hook.paging.page = 2
    /\ hook.paging.issued = <<1, InitialLimit>>
    /\ hook.page = 1
    /\ hook.limit = InitialLimit

\* C26: mounting usePaginatedQuery starts exactly one underlying call, and
\* after it only nextPage, prevPage, firstPage and fetchPage start calls, one
\* each: the effect on [apiHook, page, limit] starts no call after the one
\* at mount.
C26_OneCallPerTrigger ==
    /\ hook.life # "new" => hook.started >= 1
    /\ hook.lastStart.origin = "effect" => hook.lastStart.id = 1

-----------------------------------------------------------------------------
(* Specification of one logical call when fetches and sleeps always end *)

\* fetch settles or its abort timer fires: the await of fetch ends
FetchEnds(s) ==
    \/ \E status \in Statuses : FetchResolves(s, status)
    \/ FetchRejects(s)
    \/ TimerFires(s)

\* every fetch settles or is aborted by its timer, every backoff sleep ends;
\* the timer is cleared before the body is read, so nothing ends the await of
\* response.json() / response.text() when the body never completes
SpecLive ==
    /\ Init
    /\ [][Next]_vars
    /\ WF_vars(FetchEnds("c1"))
    /\ WF_vars(SleepEnds("c1"))

\* C30: every logical call eventually settles, after at most as many attempts
\* as the effective retry count allows (one when that count is 0), and when
\* it has settled no abort timer of the call is armed.
C30_EventuallySettles ==
    /\ \A s \in Calls : (calls[s].pc # "idle") ~> Settled(calls[s])
    /\ [](\A s \in Calls :
            /\ calls[s].attempt
                  <= IF effectiveRetries(calls[s].retriesOpt, inst) > 1
                     THEN effectiveRetries(calls[s].retriesOpt, inst)
                     ELSE 1
            /\ Settled(calls[s]) => calls[s].timer = << >>)

-----------------------------------------------------------------------------
(* Specification of handleApiError over bounded ApiError objects *)

\* the part of the state the helpers of apiHelpers never touch
HelpersFrame ==
    /\ UNCHANGED <<config, inst, authTokens, storage, calls, session>>
    /\ UrlUnchanged
    /\ ProviderUnchanged
    /\ HookUnchanged
    /\ QueryUnchanged

\* the statuses with a case of their own, and some without
ListedStatuses == {400, 401, 403, 404, 422, 429, 500, 503}
ErrorStatuses == ListedStatuses \cup {0, 408, 418, 502}

\* error.message: absent, what ApiService.handleError falls back to, what a
\* server may say
ErrorMessages == {"", "HTTP 400", "HTTP 422", "Email already taken",
                  "The requested resource was not found.",
                  "Server error. Please try again later."}

MessageInit ==
    /\ config = DeployedConfig
    /\ inst = Constructor(config)
    /\ authTokens = [c \in Clients |-> NoTokens]
    /\ storage = EmptyStorage
    /\ calls = [s \in Calls |-> IdleCall]
    /\ session = NoSession
    /\ UrlIdle
    /\ provider = ProviderIdle
    /\ query = QueryIdle
    /\ hook = HookIdle
    /\ cache = EmptyCache
    /\ clock = 0
    /\ cacheLog = CacheLogIdle
    /\ interceptors = NoInterceptors
    /\ \E status \in ErrorStatuses, message \in ErrorMessages :
          userMessage = [status |-> status, message |-> message,
                         out |-> "", done |-> FALSE]

HandleApiError ==
    /\ ~userMessage.done
    /\ userMessage' = [userMessage EXCEPT
                         !.out = handleApiError(userMessage), !.done = TRUE]
    /\ UNCHANGED <<cache, clock, cacheLog, interceptors>>
    /\ HelpersFrame

MessageNext == HandleApiError

SpecMessage == MessageInit /\ [][MessageNext]_vars

\* the message the specification fixes for each listed status
FixedMessage(status) ==
    CASE status = 400 -> "Bad request. Please check your input."
      [] status = 401 -> "You are not authorized. Please log in again."
      [] status = 403 -> "You do not have permission to perform this action."
      [] status = 404 -> "The requested resource was not found."
      [] status = 422 -> "Validation failed. Please check your input."
      [] status = 429 -> "Too many requests. Please try again later."
      [] status = 500 -> "Server error. Please try again later."
      [] status = 503 -> "Service unavailable. Please try again later."

\* C21: for each of 400, 401, 403, 404, 422, 429, 500 and 503 handleApiError
\* returns that status's own fixed message whatever the error's message is,
\* the eight messages being pairwise distinct; for any other status it
\* returns the error's message when there is one and a generic string
\* otherwise.
C21_FixedMessages ==
    /\ \A a, b \in ListedStatuses :
          a # b => FixedMessage(a) # FixedMessage(b)
    /\ userMessage.done =>
          userMessage.out
            = IF userMessage.status \in ListedStatuses
              THEN FixedMessage(userMessage.status)
              ELSE IF userMessage.message # ""
                   THEN userMessage.message
                   ELSE "An unexpected error occurred."

-----------------------------------------------------------------------------
(* Specification of one ApiService instance with interceptors installed *)

InterceptorInit ==
    /\ ServicesIdle
    /\ hook = HookIdle

\* setRequestInterceptor(f): the field is assigned, nothing else happens
SetRequestInterceptor ==
    /\ interceptors' = [interceptors EXCEPT !.request = TRUE]
    /\ UNCHANGED <<userMessage, cache, clock, cacheLog>>
    /\ HelpersFrame

\* setResponseInterceptor(g)
SetResponseInterceptor ==
    /\ interceptors' = [interceptors EXCEPT !.response = TRUE]
    /\ UNCHANGED <<userMessage, cache, clock, cacheLog>>
    /\ HelpersFrame

\* requests of the main instance; makeRequest reads neither interceptor
\* field, so every step of a call leaves both call counts as they are
InterceptorNext ==
    \/ SetRequestInterceptor
    \/ SetResponseInterceptor
    \/ \E r \in RetryInputs : Get("c1", "main", r, Undefined)
    \/ \E r \in RetryInputs : Post("c1", "main", r, Undefined)
    \/ \E status \in Statuses : FetchResolves("c1", status)
    \/ \E data \in Bodies : BodyDecoded("c1", data)
    \/ BodyRejects("c1")
    \/ FetchRejects("c1")
    \/ TimerFires("c1")
    \/ SleepEnds("c1")
    \/ Release("c1")

SpecInterceptor == InterceptorInit /\ [][InterceptorNext]_vars

\* C22: once setRequestInterceptor(f) has run, every attempt the instance
\* dispatches is issued with the options f returned, so f is called for it;
\* once setResponseInterceptor(g) has run, every envelope returned to the
\* caller is the result of g, so g is called for it.
C22_InterceptorsApplied ==
    [][\A s \in Calls :
          /\ (interceptors.request
                /\ Len(calls'[s].headers) = Len(calls[s].headers) + 1)
                => interceptors'.requestCalls = interceptors.requestCalls + 1
          /\ (interceptors.response
                /\ calls[s].pc # "returned" /\ calls'[s].pc = "returned")
                => interceptors'.responseCalls = interceptors.responseCalls + 1
      ]_vars

-----------------------------------------------------------------------------
(* Specification of one ApiCache while time passes *)

CacheData == {"a", "b"}
TtlInputs == {Undefined, <<0>>, <<2>>}

CacheInit ==
    /\ ServicesIdle
    /\ hook = HookIdle

CacheFrame ==
    /\ UNCHANGED <<userMessage, interceptors>>
    /\ HelpersFrame

CacheSet(key, data, ttlOpt) ==
    /\ cache' = set(cache, key, data, ttlOpt, clock)
    /\ cacheLog' = [cacheLog EXCEPT !.writes[key] = cache'[key]]
    /\ UNCHANGED clock
    /\ CacheFrame

CacheGet(key) ==
    LET got == get(cache, key, clock)
    IN  /\ cache' = got.cache
        /\ cacheLog' = [cacheLog EXCEPT
                          !.get = [done |-> TRUE, key |-> key, at |-> clock,
                                   value |-> got.value,
                                   written |-> cacheLog.writes[key],
                                   kept |-> got.cache[key].present]]
        /\ UNCHANGED clock
        /\ CacheFrame

CacheDelete(key) ==
    /\ cache' = delete(cache, key)
    /\ cacheLog' = [cacheLog EXCEPT !.writes[key] = NoEntry]
    /\ UNCHANGED clock
    /\ CacheFrame

CacheClear ==
    /\ cache' = clear(cache)
    /\ cacheLog' = [cacheLog EXCEPT !.writes = EmptyCache]
    /\ UNCHANGED clock
    /\ CacheFrame

\* a millisecond passes
TimePasses ==
    /\ clock < MaxClock
    /\ clock' = clock + 1
    /\ UNCHANGED <<cache, cacheLog>>
    /\ CacheFrame

CacheNext ==
    \/ \E key \in CacheKeys, data \in CacheData, ttlOpt \in TtlInputs :
          CacheSet(key, data, ttlOpt)
    \/ \E key \in CacheKeys : CacheGet(key)
    \/ \E key \in CacheKeys : CacheDelete(key)
    \/ CacheClear
    \/ TimePasses

SpecCache == CacheInit /\ [][CacheNext]_vars

\* C23: when a key was last written by set(key, data, ttl) at time t and no
\* delete or clear followed, get(key) returns data at every time up to
\* t + ttl and null at every later time; a get after expiry leaves no entry
\* under the key; t and ttl are those of the latest set, so a later set
\* restarts the time to live from its own time.
C23_CacheTtl ==
    LET g == cacheLog.get
        w == cacheLog.get.written
    IN  (g.done /\ w.present)
            => IF g.at <= w.timestamp + w.ttl
               THEN g.value = w.data /\ g.kept
               ELSE g.value = "null" /\ ~g.kept

\* a key written a second time is read exactly when its new time to live
\* ends and still yields the data
C23_Witness ==
    /\ cacheLog.get.done
    /\ cacheLog.get.written.present
    /\ cacheLog.get.written.timestamp > 0
    /\ cacheLog.get.written.ttl = 2
    /\ cacheLog.get.at = cacheLog.get.written.timestamp + 2
    /\ cacheLog.get.value = cacheLog.get.written.data
    /\ cacheLog.get.value = "b"

-----------------------------------------------------------------------------
(* Specification of AuthService with overlapping logins after a page load *)

SessionInit ==
    /\ config = DeployedConfig
    /\ inst = Constructor(config)
    /\ authTokens = [c \in Clients |-> NoTokens]
    /\ storage \in [authTokens : StoredTokens, loginResponse : StoredLogins]
    /\ calls = [s \in Calls |-> IdleCall]
    /\ session = NoSession
    /\ UrlIdle
    /\ provider = ProviderIdle
    /\ hook = HookIdle
    /\ query = QueryIdle
    /\ HelpersIdle

\* AuthService.initializeAuth(), the first thing the application runs
InitializeAuth ==
    /\ session.op = "none"
    /\ LET after == initializeAuth([tokens |-> authTokens, storage |-> storage,
                                    session |-> session])
       IN  /\ authTokens' = after.tokens
           /\ storage' = after.storage
           /\ session' = [after.session EXCEPT !.op = "initializeAuth"]
    /\ UNCHANGED <<config, inst, calls>>
    /\ UrlUnchanged
    /\ ProviderUnchanged
    /\ HookUnchanged
    /\ QueryUnchanged
    /\ HelpersUnchanged

\* both slots carry logins, so two logins may be in flight at once
SessionNext ==
    \/ InitializeAuth
    \/ \E s \in Calls : session.op # "none" /\ Login(s)
    \/ \E s \in Calls : session.op # "none" /\ QuickLogin(s)
    \/ session.op # "none" /\ Logout
    \/ \E s \in Calls :
          \/ \E status \in AuthStatuses : FetchResolves(s, status)
          \/ \E data \in ServerBodies(calls[s]) : BodyDecoded(s, data)
          \/ BodyRejects(s)
          \/ FetchRejects(s)
          \/ TimerFires(s)
          \/ SleepEnds(s)

SpecSession == SessionInit /\ [][SessionNext]_vars

\* the login of slot s ends in this step by raising
LoginRaises(s) ==
    /\ calls[s].owner \in {"login", "quickLogin"}
    /\ calls'[s].pc = "idle"
    /\ \/ FetchRejects(s)
       \/ TimerFires(s)
       \/ BodyRejects(s)
       \/ calls[s].pc = "decoding" /\ ~responseOk(calls[s].status)

====
